---- MODULE Spec2Model ----
(***************************************************************************)
(* Model of src/main.py: a straight-line script that loads a table of      *)
(* insurance records and builds, solves and reports six PuLP models one    *)
(* after another.                                                          *)
(*                                                                         *)
(* The data frame is a multiset of rows (row type -> number of rows): row  *)
(* order only names the variables x_i of the first model.  A PuLP variable *)
(* is a pair <<name prefix, index>>.  An assignment is a function from     *)
(* variables to integers.  Money is in whole currency units; group means   *)
(* are truncated to whole units; the share factors 0.3, 0.2, 0.4 are kept  *)
(* exact as percentages, both sides of the constraint multiplied by 100.   *)
(*                                                                         *)
(* prob.solve() is the external solver (CBC): it is modelled by its        *)
(* contract, an exhaustive search of a bounded box of assignments.         *)
(***************************************************************************)
EXTENDS Integers, Sequences, FiniteSets, TLC

VARIABLES
    pc,              \* index in Script of the next statement to run
    fim,             \* index of the last statement of the run
    erro,            \* "nenhum", or the exception that ended the run
    cols,            \* the columns of df
    df,              \* the rows of df: row type -> number of rows (> 0)
    total_clientes,  \* the expression bound to the name total_clientes
    total_orcamento, \* the expression bound to the name total_orcamento
    criadas,         \* the LpVariables created so far: pairs <<variable, scenario>>
    prob,            \* the six LpProblems
    status,          \* the solve status of each model
    valor,           \* varValue of the variables of the model solved last
    out,             \* what each scenario's report rendered
    selecionados,    \* the list selecionados of scenario 1's report
    fracao,          \* the share cap of the ratio model, in percent
    minimo_regiao,   \* the per-group minimum of the ratio model
    centros,         \* coordinates of the candidate centres
    clientes_coords  \* coordinates of the demand points

vars == <<pc, fim, erro, cols, df, total_clientes, total_orcamento, criadas, prob,
          status, valor, out, selecionados, fracao, minimo_regiao, centros,
          clientes_coords>>

----------------------------------------------------------------------------
(* Bounds of the model *)

\* rows of the data frame in a full run of the script
MaxRecords == 2
\* rows of the data frame when only the selection scenario runs
MaxSelecao == 3
\* largest value the search tries for an integer variable that has no upper bound
MaxCount == 52
\* how far around the data the search tries an integer variable that the data bounds
MaxFolga == 1
\* largest value a variable holds after a solve that found no solution
MaxLixo == 1
\* steps of the grid the search tries for a continuous budget variable
GradeOrcamento == 5
\* candidate centres and demand points of the coverage scenario
MaxCentros == 3
MaxPontos == 1

----------------------------------------------------------------------------
(* Program constants *)

Requeridas == {"age", "sex", "bmi", "children", "smoker", "region", "charges"}

receita == 5000
custo_medio_max == 15000
minimo_total == 50
fracao_regiao == 30
minimo_por_regiao == 10
custo_emergencia == 10000
custo_cirurgia == 15000
custo_consulta == 2000
orcamento_capacidade == 2000000
minimo_faixa_total == 100
fracao_faixa == 20
orcamento_total == 500000
minimo_canal == 20000
fracao_canal == 40
custo_fixo_centro == 10000
min_centros == 2
max_centros == 4

Regioes == {"Norte", "Sul", "Centro"}
Faixas == {"Jovem", "Adulto", "Senior"}
canais == {"Digital", "TV", "Radio", "Impresso"}

receita_faixa(f) == CASE f = "Jovem" -> 4000 [] f = "Adulto" -> 5000 [] OTHER -> 6000

custo_por_lead(c) ==
    CASE c = "Digital" -> 50 [] c = "TV" -> 200 [] c = "Radio" -> 75 [] OTHER -> 100

\* conversao_rate, in percent
conversao_rate(c) ==
    CASE c = "Digital" -> 15 [] c = "TV" -> 8 [] c = "Radio" -> 10 [] OTHER -> 5

----------------------------------------------------------------------------
(* The data frame *)

Linha(ch, b, a, s) == [charges |-> ch, bmi |-> b, age |-> a, smoker |-> s]

\* df.index: one client per row
clientes == UNION {{<<t, j>> : j \in 1..df[t]} : t \in DOMAIN df}

RECURSIVE SomaSobre(_, _)
\* sum of f[t] over the elements t of S
SomaSobre(f, S) ==
    IF S = {} THEN 0
    ELSE LET t == CHOOSE u \in S : TRUE IN f[t] + SomaSobre(f, S \ {t})

NumLinhas == SomaSobre(df, DOMAIN df)

\* df["regiao"], derived from bmi
Regiao(t) == IF t.bmi < 25 THEN "Norte" ELSE IF t.bmi < 30 THEN "Sul" ELSE "Centro"

\* df["regiao"].unique()
regioes == {Regiao(t) : t \in DOMAIN df}

\* the mean of charges over the rows of the types T (truncated)
MediaCharges(T) ==
    SomaSobre([t \in T |-> t.charges * df[t]], T) \div SomaSobre(df, T)

custos_por_regiao(r) == MediaCharges({t \in DOMAIN df : Regiao(t) = r})

demanda_emergencia(t) == IF t.age > 50 \/ t.smoker = "yes" THEN 1 ELSE 0
demanda_cirurgia(t) == IF t.bmi > 35 \/ t.age > 60 THEN 1 ELSE 0
demanda_consulta(t) == 1

\* df.loc[t, column] of a demand column
Coluna(c, t) ==
    CASE c = "demanda_emergencia" -> demanda_emergencia(t)
      [] c = "demanda_cirurgia" -> demanda_cirurgia(t)
      [] OTHER -> demanda_consulta(t)

\* df[column].sum()
SomaColuna(c) == SomaSobre([t \in DOMAIN df |-> Coluna(c, t) * df[t]], DOMAIN df)

\* pd.cut(age, bins=[0, 30, 50, 100]): intervals open on the left, closed on the right
faixa_etaria(t) ==
    IF t.age > 0 /\ t.age <= 30 THEN "Jovem"
    ELSE IF t.age > 30 /\ t.age <= 50 THEN "Adulto"
    ELSE IF t.age > 50 /\ t.age <= 100 THEN "Senior"
    ELSE "NaN"

\* df["faixa_etaria"].dropna().unique()
faixas == {faixa_etaria(t) : t \in DOMAIN df} \ {"NaN"}

custo_faixa(f) == MediaCharges({t \in DOMAIN df : faixa_etaria(t) = f})

\* df["faixa_etaria"].value_counts()
disponivel_faixa(f) ==
    LET T == {t \in DOMAIN df : faixa_etaria(t) = f} IN SomaSobre(df, T)

\* distancia(p1, p2): the square root, truncated to two decimals (in hundredths)
RECURSIVE Raiz(_, _, _)
\* the largest r in lo..hi with r * r <= n
Raiz(n, lo, hi) ==
    IF lo = hi THEN lo
    ELSE LET m == (lo + hi + 1) \div 2
         IN IF m * m <= n THEN Raiz(n, m, hi) ELSE Raiz(n, lo, m - 1)

distancia(p1, p2) ==
    LET q == (p1[1] - p2[1]) * (p1[1] - p2[1]) + (p1[2] - p2[2]) * (p1[2] - p2[2])
    IN Raiz(10000 * q, 0, 100 * q)

n_centros == Len(centros)
n_clientes_sample == Len(clientes_coords)

----------------------------------------------------------------------------
(* The script: its statements in program order *)

St(l, c, o) == [linha |-> l, cen |-> c, op |-> o]

Programa ==
    << St(18, 1, "derive"), St(19, 1, "derive"), St(23, 1, "vars"), St(25, 1, "problem"),
       St(28, 1, "objective"), St(31, 1, "constraint"), St(34, 1, "solve"),
       St(37, 1, "report"),
       St(52, 2, "derive"), St(55, 2, "problem"), St(59, 2, "vars"),
       St(63, 2, "objective"), St(67, 2, "constraint"), St(70, 2, "bind"),
       St(72, 2, "constraint"), St(76, 2, "constraint"), St(78, 2, "solve"),
       St(80, 2, "report"),
       St(92, 3, "derive"), St(93, 3, "derive"), St(94, 3, "derive"),
       St(97, 3, "problem"), St(100, 3, "vars"), St(101, 3, "vars"), St(102, 3, "vars"),
       St(110, 3, "objective"), St(115, 3, "constraint"), St(116, 3, "constraint"),
       St(117, 3, "constraint"), St(120, 3, "constraint"), St(124, 3, "solve"),
       St(126, 3, "report"),
       St(140, 4, "derive"), St(143, 4, "problem"), St(147, 4, "vars"),
       St(156, 4, "objective"), St(162, 4, "constraint"), St(165, 4, "constraint"),
       St(168, 4, "bind"), St(170, 4, "constraint"), St(172, 4, "solve"),
       St(174, 4, "report"),
       St(199, 5, "problem"), St(202, 5, "vars"), St(205, 5, "objective"),
       St(209, 5, "constraint"), St(213, 5, "constraint"), St(216, 5, "bind"),
       St(218, 5, "constraint"), St(220, 5, "solve"), St(222, 5, "report"),
       St(263, 6, "problem"), St(267, 6, "vars"), St(272, 6, "vars"),
       St(276, 6, "objective"), St(284, 6, "constraint"), St(289, 6, "constraint"),
       St(292, 6, "constraint"), St(295, 6, "constraint"), St(297, 6, "solve"),
       St(299, 6, "report") >>

\* the script with the solve of the first model moved before its constraint
ProgramaTrocado ==
    LET i == CHOOSE j \in 1..Len(Programa) : Programa[j].linha = 31
    IN [j \in 1..Len(Programa) |->
           IF j = i THEN Programa[i + 1] ELSE IF j = i + 1 THEN Programa[i] ELSE Programa[j]]

\* the statements the interpreter runs
Script == Programa

Cenarios == 1..6

\* the first and the last statement of scenario k
Primeiro(k) == CHOOSE i \in 1..Len(Script) :
                  Script[i].cen = k /\ \A j \in 1..(i - 1) : Script[j].cen # k
Ultimo(k) == CHOOSE i \in 1..Len(Script) :
                  Script[i].cen = k /\ \A j \in (i + 1)..Len(Script) : Script[j].cen # k

\* the columns a statement reads
Precisa(l) ==
    CASE l = 19 -> {"charges"}
      [] l = 28 -> {"receita"}
      [] l = 31 -> {"custo"}
      [] l = 52 -> {"bmi"}
      [] l = 59 -> {"regiao"}
      [] l = 63 -> {"regiao", "custo"}
      [] l = 92 -> {"age", "smoker"}
      [] l = 93 -> {"bmi", "age"}
      [] l = 115 -> {"demanda_emergencia"}
      [] l = 116 -> {"demanda_cirurgia"}
      [] l = 117 -> {"demanda_consulta"}
      [] l = 140 -> {"age"}
      [] l = 147 -> {"faixa_etaria"}
      [] l = 156 -> {"faixa_etaria", "charges"}
      [] l = 162 -> {"faixa_etaria"}
      [] OTHER -> {}

\* the column a statement adds to df
Produz(l) ==
    CASE l = 18 -> {"receita"}
      [] l = 19 -> {"custo"}
      [] l = 52 -> {"regiao"}
      [] l = 92 -> {"demanda_emergencia"}
      [] l = 93 -> {"demanda_cirurgia"}
      [] l = 94 -> {"demanda_consulta"}
      [] l = 140 -> {"faixa_etaria"}
      [] OTHER -> {}

----------------------------------------------------------------------------
(* The decision variables *)

x == {<<"x", i>> : i \in clientes}
y == {<<"clientes_regiao", r>> : r \in regioes}
cap_emergencia == <<"cap_emergencia", 0>>
cap_cirurgia == <<"cap_cirurgia", 0>>
cap_consulta == <<"cap_consulta", 0>>
clientes_faixa == {<<"clientes", f>> : f \in faixas}
orcamento == {<<"orcamento", c>> : c \in canais}
z == {<<"centro_aberto", j>> : j \in 1..n_centros}
w == {<<"atende", <<i, j>>>> : i \in 1..n_clientes_sample, j \in 1..n_centros}

\* the variables a statement creates
NovasVars(l) ==
    CASE l = 23 -> x
      [] l = 59 -> y
      [] l = 100 -> {cap_emergencia}
      [] l = 101 -> {cap_cirurgia}
      [] l = 102 -> {cap_consulta}
      [] l = 147 -> clientes_faixa
      [] l = 202 -> orcamento
      [] l = 267 -> z
      [] l = 272 -> w
      [] OTHER -> {}

----------------------------------------------------------------------------
(* Linear expressions and constraints.  An expression is a sequence of terms *)
(* <<coefficient, variable>>; a constraint is expression, sense, constant.   *)

RECURSIVE lpSum(_, _)
\* pulp.lpSum(peso[v] * v for v in V)
lpSum(V, peso) ==
    IF V = {} THEN <<>>
    ELSE LET v == CHOOSE u \in V : TRUE IN <<<<peso[v], v>>>> \o lpSum(V \ {v}, peso)

\* pulp.lpSum(v for v in V)
Soma(V) == lpSum(V, [v \in V |-> 1])

\* n * e
Vezes(n, e) == [i \in 1..Len(e) |-> <<n * e[i][1], e[i][2]>>]

\* e - f
Menos(e, f) == e \o Vezes(-1, f)

\* the variables that occur in e
VarsDe(e) == {e[i][2] : i \in 1..Len(e)}

\* the constraint "e s r" added by the statement at line l
Restricao(l, e, s, r) == [linha |-> l, termos |-> e, sentido |-> s, rhs |-> r]

\* the cap applied to the total cost of the selected, not to their mean
R31_total == {Restricao(31, lpSum(x, [v \in x |-> v[2][1].charges]), "<=", custo_medio_max)}

\* Scenario 1: maximize the revenue, mean cost of the selected at most 15000
O28 == lpSum(x, [v \in x |-> receita])
R31 ==
    {Restricao(31, Menos(lpSum(x, [v \in x |-> v[2][1].charges]),
                         Vezes(custo_medio_max, Soma(x))), "<=", 0)}

\* Scenario 2: minimize the cost, at least 50 clients, at most 30% and at least 10
\* per region.  "y[r] <= 0.3 * total_clientes" is kept as 100 * y[r] - 30 * total <= 0
O63 == lpSum(y, [v \in y |-> custos_por_regiao(v[2])])
R67 == {Restricao(67, Soma(y), ">=", minimo_total)}
E70 == Soma(y)
\* the share turned into a floor: each group at least the fraction of the total
R72_piso ==
    {Restricao(72, Menos(<<<<100, v>>>>, Vezes(fracao, total_clientes)), ">=", 0) : v \in y}
R72 == {Restricao(72, Menos(<<<<100, v>>>>, Vezes(fracao, total_clientes)), "<=", 0) : v \in y}
R76 == {Restricao(76, <<<<1, v>>>>, ">=", minimo_regiao) : v \in y}

\* Scenario 3: minimize the cost of the capacities, each at least its demand, the
\* cost within the budget
O110 == << <<custo_emergencia, cap_emergencia>>, <<custo_cirurgia, cap_cirurgia>>,
           <<custo_consulta, cap_consulta>> >>
R115 == {Restricao(115, <<<<1, cap_emergencia>>>>, ">=", SomaColuna("demanda_emergencia"))}
R116 == {Restricao(116, <<<<1, cap_cirurgia>>>>, ">=", SomaColuna("demanda_cirurgia"))}
R117 == {Restricao(117, <<<<1, cap_consulta>>>>, ">=", SomaColuna("demanda_consulta"))}
\* the budget constraint left out
R120_ausente == {}
R120 ==
    {Restricao(120, << <<custo_emergencia, cap_emergencia>>, <<custo_cirurgia, cap_cirurgia>>,
                       <<custo_consulta, cap_consulta>> >>, "<=", orcamento_capacidade)}

\* Scenario 4: maximize the profit, at most the rows available per tier, at least
\* 100 in total, at least 20% per tier
O156 == lpSum(clientes_faixa,
              [v \in clientes_faixa |-> receita_faixa(v[2]) - custo_faixa(v[2])])
R162 == {Restricao(162, <<<<1, v>>>>, "<=", disponivel_faixa(v[2])) : v \in clientes_faixa}
R165 == {Restricao(165, Soma(clientes_faixa), ">=", minimo_faixa_total)}
\* the total of scenario 4 never bound: the name still holds the total of scenario 2
E168_regioes == Soma(y)
E168 == Soma(clientes_faixa)
\* the share turned into a cap: each tier at most 20% of the total
R170_teto ==
    {Restricao(170, Menos(<<<<100, v>>>>, Vezes(fracao_faixa, total_clientes)), "<=", 0) :
        v \in clientes_faixa}
R170 ==
    {Restricao(170, Menos(<<<<100, v>>>>, Vezes(fracao_faixa, total_clientes)), ">=", 0) :
        v \in clientes_faixa}

\* Scenario 5: maximize the new clients, (orcamento / custo_por_lead) * conversao_rate
\* per channel, scaled by 60000: rates in percent, 600 a multiple of every cost
O205 == lpSum(orcamento,
              [v \in orcamento |-> conversao_rate(v[2]) * (600 \div custo_por_lead(v[2]))])
R209 == {Restricao(209, Soma(orcamento), "<=", orcamento_total)}
R213 == {Restricao(213, <<<<1, v>>>>, ">=", minimo_canal) : v \in orcamento}
E216 == Soma(orcamento)
R218 ==
    {Restricao(218, Menos(<<<<100, v>>>>, Vezes(fracao_canal, total_orcamento)), "<=", 0) :
        v \in orcamento}

\* Scenario 6: minimize distance (in hundredths) plus fixed cost, each client at
\* exactly one centre, only at open centres, 2 to 4 centres open
O276 ==
    lpSum(w, [v \in w |-> distancia(clientes_coords[v[2][1]], centros[v[2][2]])])
        \o lpSum(z, [v \in z |-> 100 * custo_fixo_centro])
R284 ==
    {Restricao(284, Soma({<<"atende", <<i, j>>>> : j \in 1..n_centros}), "=", 1) :
        i \in 1..n_clientes_sample}
R289 ==
    {Restricao(289, << <<1, v>>, <<-1, <<"centro_aberto", v[2][2]>>>> >>, "<=", 0) : v \in w}
\* at least one centre open, not two
R292_um == {Restricao(292, Soma(z), ">=", min_centros - 1)}
R292 == {Restricao(292, Soma(z), ">=", min_centros)}
R295 == {Restricao(295, Soma(z), "<=", max_centros)}

\* the objective the statement at line l sets
ObjetivoDe(l) ==
    CASE l = 28 -> O28
      [] l = 63 -> O63
      [] l = 110 -> O110
      [] l = 156 -> O156
      [] l = 205 -> O205
      [] l = 276 -> O276
      [] OTHER -> <<>>

\* the constraints the statement at line l adds
RestricoesDe(l) ==
    CASE l = 31 -> R31
      [] l = 67 -> R67
      [] l = 72 -> R72
      [] l = 76 -> R76
      [] l = 115 -> R115
      [] l = 116 -> R116
      [] l = 117 -> R117
      [] l = 120 -> R120
      [] l = 162 -> R162
      [] l = 165 -> R165
      [] l = 170 -> R170
      [] l = 209 -> R209
      [] l = 213 -> R213
      [] l = 218 -> R218
      [] l = 284 -> R284
      [] l = 289 -> R289
      [] l = 292 -> R292
      [] l = 295 -> R295
      [] OTHER -> {}

\* the expression the statement at line l binds to a name
ExpressaoDe(l) ==
    CASE l = 70 -> E70
      [] l = 168 -> E168
      [] l = 216 -> E216
      [] OTHER -> <<>>

\* every model minimized
SempreMinimiza(k) == FALSE

\* LpMaximize or LpMinimize
Maximiza(k) == k \in {1, 4, 5}

\* the variables of model k: those of its objective and of its constraints
Variaveis(k) ==
    VarsDe(prob[k].objetivo) \cup UNION {VarsDe(r.termos) : r \in prob[k].restricoes}

----------------------------------------------------------------------------
(* The solver: an exhaustive search.  The model is written out by columns, as *)
(* for the solver's input file; a point gives each column a value.            *)

Maior(a, b) == IF a >= b THEN a ELSE b

\* the values the search tries for an integer variable that the datum d bounds
\* from below: lo, lo + 1, ..., lo + n
Janela(d) ==
    LET lo == Maior(0, d - MaxFolga) IN [lo |-> lo, passo |-> 1, n |-> d + MaxFolga - lo]

\* the values the search tries for the variable v: lo, lo + passo, ..., lo + n * passo
Dominio(v) ==
    CASE v[1] \in {"x", "centro_aberto", "atende"} -> [lo |-> 0, passo |-> 1, n |-> 1]
      [] v[1] = "clientes_regiao" -> [lo |-> 0, passo |-> 1, n |-> MaxCount]
      [] v[1] = "cap_emergencia" -> Janela(SomaColuna("demanda_emergencia"))
      [] v[1] = "cap_cirurgia" -> Janela(SomaColuna("demanda_cirurgia"))
      [] v[1] = "cap_consulta" -> Janela(SomaColuna("demanda_consulta"))
      [] v[1] = "clientes" ->
           [lo |-> 0, passo |-> 1, n |-> disponivel_faixa(v[2]) + MaxFolga]
      [] OTHER ->
           [lo |-> 0, passo |-> orcamento_total \div GradeOrcamento, n |-> GradeOrcamento]

RECURSIVE MaiorDe(_, _, _)
\* the largest element of the set S of integers, known to lie in lo..hi
MaiorDe(S, lo, hi) ==
    IF lo = hi THEN lo
    ELSE LET m == (lo + hi + 1) \div 2
         IN IF \E s \in S : s >= m THEN MaiorDe(S, m, hi) ELSE MaiorDe(S, lo, m - 1)

\* every objective value lies within -Limite..Limite
Limite == 2^30 - 1

RECURSIVE SeqDe(_)
\* the elements of S in some order
SeqDe(S) ==
    IF S = {} THEN <<>> ELSE LET v == CHOOSE u \in S : TRUE IN <<v>> \o SeqDe(S \ {v})

\* model k by columns: the variables in order, the objective and the constraints
\* over column numbers, the values tried per column
Colunas(k) ==
    LET cs == SeqDe(Variaveis(k))
        pos == [v \in Variaveis(k) |-> CHOOSE i \in 1..Len(cs) : cs[i] = v]
        Num(e) == [i \in 1..Len(e) |-> <<e[i][1], pos[e[i][2]]>>]
        D == [i \in 1..Len(cs) |-> Dominio(cs[i])]
    IN [vars |-> cs,
        obj |-> Num(prob[k].objetivo),
        linhas |-> {[r EXCEPT !.termos = Num(r.termos)] : r \in prob[k].restricoes},
        dom |-> D,
        n |-> MaiorDe({D[i].n : i \in 1..Len(cs)} \cup {0}, 0, Limite)]

RECURSIVE ValorDe(_, _, _)
\* the value at the point p of the first n terms of e
ValorDe(e, p, n) == IF n = 0 THEN 0 ELSE e[n][1] * p[e[n][2]] + ValorDe(e, p, n - 1)

\* whether the point p satisfies the constraint r
Cumpre(r, p) ==
    LET s == ValorDe(r.termos, p, Len(r.termos))
    IN CASE r.sentido = "<=" -> s <= r.rhs
         [] r.sentido = ">=" -> s >= r.rhs
         [] OTHER -> s = r.rhs

\* the point of the choice j of one value per column
Ponto(m, j) == [i \in 1..Len(m.vars) |-> m.dom[i].lo + m.dom[i].passo * j[i]]

\* the feasible points of the model m among those the search tries
PontosViaveis(m) ==
    {Ponto(m, j) :
        j \in {h \in [1..Len(m.vars) -> 0..m.n] :
                 /\ \A i \in 1..Len(m.vars) : h[i] <= m.dom[i].n
                 /\ \A r \in m.linhas : Cumpre(r, Ponto(m, h))}}

\* the best of the points P for the objective of m, maximized or minimized
Melhores(m, P, max) ==
    LET sinal == IF max THEN 1 ELSE -1
        vals == {sinal * ValorDe(m.obj, p, Len(m.obj)) : p \in P}
        melhor == MaiorDe(vals, CHOOSE s \in vals : TRUE, Limite)
    IN {p \in P : sinal * ValorDe(m.obj, p, Len(m.obj)) = melhor}

\* the point p as values of the variables
Atribuicao(m, p) == [v \in {m.vars[i] : i \in 1..Len(m.vars)} |->
                        p[CHOOSE i \in 1..Len(m.vars) : m.vars[i] = v]]

\* the feasible assignments of model k
Viaveis(k) == LET m == Colunas(k) IN {Atribuicao(m, p) : p \in PontosViaveis(m)}

\* the optimal assignments of model k
Otimos(k) ==
    LET m == Colunas(k)
        P == PontosViaveis(m)
    IN IF P = {} THEN {} ELSE {Atribuicao(m, p) : p \in Melhores(m, P, Maximiza(k))}

\* varValue of v under the assignment a
Val(a, v) == IF v \in DOMAIN a THEN a[v] ELSE 0

\* the value of the expression e under the assignment a
RECURSIVE Avalia(_, _)
Avalia(e, a) == IF e = <<>> THEN 0 ELSE e[1][1] * Val(a, e[1][2]) + Avalia(Tail(e), a)

\* what the variables hold after a solve that found no solution: nothing, or
\* whatever the solver wrote back
Lixo(k) == [Variaveis(k) -> 0..MaxLixo]

Nenhum == [definido |-> FALSE, a |-> [v \in {} |-> 0]]
Definido(a) == [definido |-> TRUE, a |-> a]

----------------------------------------------------------------------------
(* The statements of the script *)

Stmt == Script[pc]

\* the run goes on: no exception so far, statements left
Ativo == erro = "nenhum" /\ pc <= fim

\* every column the statement reads is in df
Le == Precisa(Stmt.linha) \subseteq cols

Incremento(k) == IF prob[k].resolvido > 0 THEN 1 ELSE 0

\* df[column] of a column df does not have: the run ends
KeyError ==
    /\ Ativo
    /\ ~Le
    /\ erro' = "KeyError"
    /\ UNCHANGED <<pc, fim, cols, df, total_clientes, total_orcamento, criadas, prob,
                   status, valor, out, selecionados, fracao, minimo_regiao, centros,
                   clientes_coords>>

\* df[new] = ...
Derive ==
    /\ Ativo
    /\ Stmt.op = "derive"
    /\ Le
    /\ cols' = cols \cup Produz(Stmt.linha)
    /\ pc' = pc + 1
    /\ UNCHANGED <<fim, erro, df, total_clientes, total_orcamento, criadas, prob, status,
                   valor, out, selecionados, fracao, minimo_regiao, centros,
                   clientes_coords>>

\* pulp.LpVariable(...), pulp.LpVariable.dicts(...)
CreateVars ==
    /\ Ativo
    /\ Stmt.op = "vars"
    /\ Le
    /\ criadas' = criadas \cup {<<v, Stmt.cen>> : v \in NovasVars(Stmt.linha)}
    /\ pc' = pc + 1
    /\ UNCHANGED <<fim, erro, cols, df, total_clientes, total_orcamento, prob, status,
                   valor, out, selecionados, fracao, minimo_regiao, centros,
                   clientes_coords>>

ProbVazio ==
    [criado |-> FALSE, objetivo |-> <<>>, objetivos |-> 0, restricoes |-> {},
     resolvido |-> 0, tardias |-> 0]

\* pulp.LpProblem(name, sense)
CreateProblem ==
    /\ Ativo
    /\ Stmt.op = "problem"
    /\ prob' = [prob EXCEPT ![Stmt.cen] = [ProbVazio EXCEPT !.criado = TRUE]]
    /\ pc' = pc + 1
    /\ UNCHANGED <<fim, erro, cols, df, total_clientes, total_orcamento, criadas, status,
                   valor, out, selecionados, fracao, minimo_regiao, centros,
                   clientes_coords>>

\* prob += expression
SetObjective ==
    /\ Ativo
    /\ Stmt.op = "objective"
    /\ Le
    /\ prob[Stmt.cen].criado
    /\ prob' = [prob EXCEPT ![Stmt.cen].objetivo = ObjetivoDe(Stmt.linha),
                            ![Stmt.cen].objetivos = @ + 1,
                            ![Stmt.cen].tardias = @ + Incremento(Stmt.cen)]
    /\ pc' = pc + 1
    /\ UNCHANGED <<fim, erro, cols, df, total_clientes, total_orcamento, criadas, status,
                   valor, out, selecionados, fracao, minimo_regiao, centros,
                   clientes_coords>>

\* prob += constraint, or the loop that adds one constraint per group
AddConstraint ==
    /\ Ativo
    /\ Stmt.op = "constraint"
    /\ Le
    /\ prob[Stmt.cen].criado
    /\ prob' = [prob EXCEPT ![Stmt.cen].restricoes = @ \cup RestricoesDe(Stmt.linha),
                            ![Stmt.cen].tardias = @ + Incremento(Stmt.cen)]
    /\ pc' = pc + 1
    /\ UNCHANGED <<fim, erro, cols, df, total_clientes, total_orcamento, criadas, status,
                   valor, out, selecionados, fracao, minimo_regiao, centros,
                   clientes_coords>>

\* name = pulp.lpSum(...)
Bind ==
    /\ Ativo
    /\ Stmt.op = "bind"
    /\ total_clientes' = IF Stmt.linha \in {70, 168} THEN ExpressaoDe(Stmt.linha)
                         ELSE total_clientes
    /\ total_orcamento' = IF Stmt.linha = 216 THEN ExpressaoDe(Stmt.linha)
                          ELSE total_orcamento
    /\ pc' = pc + 1
    /\ UNCHANGED <<fim, erro, cols, df, criadas, prob, status, valor, out, selecionados,
                   fracao, minimo_regiao, centros, clientes_coords>>

\* prob.solve()
Solve ==
    /\ Ativo
    /\ Stmt.op = "solve"
    /\ prob[Stmt.cen].criado
    /\ LET k == Stmt.cen
           S == Otimos(k)
       IN /\ prob' = [prob EXCEPT ![k].resolvido = @ + 1]
          /\ IF S # {}
             THEN /\ status' = [status EXCEPT ![k] = "Optimal"]
                  /\ \E a \in S : valor' = Definido(a)
             ELSE /\ status' = [status EXCEPT ![k] = "Infeasible"]
                  /\ valor' \in {Nenhum} \cup {Definido(a) : a \in Lixo(k)}
    /\ pc' = pc + 1
    /\ UNCHANGED <<fim, erro, cols, df, total_clientes, total_orcamento, criadas, out,
                   selecionados, fracao, minimo_regiao, centros, clientes_coords>>

\* the variables the report of scenario k passes to int() or formats
LidasSemGuarda(k) ==
    CASE k = 1 -> x
      [] k = 2 -> y
      [] k = 3 -> {cap_emergencia, cap_cirurgia, cap_consulta}
      [] k = 6 -> z \cup w
      [] OTHER -> {}

\* the variables the report of scenario k reads behind "is not None"
LidasComGuarda(k) ==
    CASE k = 4 -> clientes_faixa
      [] k = 5 -> orcamento
      [] OTHER -> {}

\* what the report of scenario k renders from the values the variables hold:
\* it never looks at the status
Relato(k) ==
    IF valor.definido THEN "solucao"
    ELSE IF LidasSemGuarda(k) # {} THEN "interrompido"
    ELSE IF LidasComGuarda(k) # {} THEN "vazio"
    ELSE "solucao"

\* the print statements that follow a solve
Report ==
    /\ Ativo
    /\ Stmt.op = "report"
    /\ LET k == Stmt.cen
       IN /\ out' = [out EXCEPT ![k] = Relato(k)]
          /\ erro' = IF Relato(k) = "interrompido" THEN "TypeError" ELSE erro
          /\ selecionados' = IF k = 1
                             THEN {i \in clientes : valor.definido /\ Val(valor.a, <<"x", i>>) = 1}
                             ELSE selecionados
    /\ pc' = pc + 1
    /\ UNCHANGED <<fim, cols, df, total_clientes, total_orcamento, criadas, prob, status,
                   valor, fracao, minimo_regiao, centros, clientes_coords>>

----------------------------------------------------------------------------
(* The run of the whole script *)

\* the data frames of lo..hi rows drawn from the row types T
Dados(T, lo, hi) ==
    {[t \in {u \in T : g[u] > 0} |-> g[t]] :
        g \in {h \in [T -> 0..hi] : SomaSobre(h, T) \in lo..hi}}

\* one row type per region, age tier and kind of demand
TiposRun == {Linha(10000, 22, 25, "no"), Linha(16000, 27, 45, "yes"),
             Linha(20000, 36, 65, "no")}

\* the columns of the file: all the required ones, or all but one
Arquivos == {Requeridas} \cup {Requeridas \ {c} : c \in Requeridas}

\* the state before a run of the statements from..to; the data are chosen by the caller
Inicio(from, to) ==
    /\ pc = from
    /\ fim = to
    /\ erro = "nenhum"
    /\ total_clientes = <<>>
    /\ total_orcamento = <<>>
    /\ criadas = {}
    /\ prob = [k \in Cenarios |-> ProbVazio]
    /\ status = [k \in Cenarios |-> "pendente"]
    /\ valor = Nenhum
    /\ out = [k \in Cenarios |-> "pendente"]
    /\ selecionados = {}

Init ==
    /\ Inicio(1, Len(Script))
    /\ cols \in Arquivos
    /\ df \in Dados(TiposRun, 1, MaxRecords)
    /\ fracao = fracao_regiao
    /\ minimo_regiao = minimo_por_regiao
    /\ centros = <<<<0, 0>>, <<3, 4>>>>
    /\ clientes_coords = <<<<0, 0>>>>

Next ==
    \/ KeyError
    \/ Derive
    \/ CreateVars
    \/ CreateProblem
    \/ SetObjective
    \/ AddConstraint
    \/ Bind
    \/ Solve
    \/ Report

Spec == Init /\ [][Next]_vars

----------------------------------------------------------------------------
(* The scenarios one at a time, on data chosen to reach their boundary cases: *)
(* a run of the statements of one scenario, from the state the statements     *)
(* before it leave.                                                           *)

\* the columns df has when scenario k starts
ColunasAntes(k) ==
    Requeridas \cup UNION {Produz(Script[i].linha) : i \in 1..(Primeiro(k) - 1)}

Fixos ==
    /\ fracao = fracao_regiao
    /\ minimo_regiao = minimo_por_regiao
    /\ centros = <<<<0, 0>>, <<3, 4>>>>
    /\ clientes_coords = <<<<0, 0>>>>

\* Scenario 1 on every list of up to MaxSelecao costs
CustosSel == {0, 10000, 15000, 16000, 20000, 30000}
TiposSel == {Linha(c, 22, 25, "no") : c \in CustosSel}

InitSel ==
    /\ Inicio(Primeiro(1), Ultimo(1))
    /\ cols = ColunasAntes(1)
    /\ df \in Dados(TiposSel, 0, MaxSelecao)
    /\ Fixos

NextSel ==
    \/ Derive
    \/ CreateVars
    \/ CreateProblem
    \/ SetObjective
    \/ AddConstraint
    \/ Solve
    \/ Report

SpecSel == InitSel /\ [][NextSel]_vars

\* Scenario 2 on every set of groups, with the share cap and the per-group
\* minimum as parameters
Fracoes == {30, 40, 50}
Minimos == {0, 10}

InitRatio ==
    /\ Inicio(Primeiro(2), Ultimo(2))
    /\ cols = ColunasAntes(2)
    /\ df \in Dados(TiposRun, 0, Cardinality(Regioes))
    /\ fracao \in Fracoes
    /\ minimo_regiao \in Minimos
    /\ centros = <<<<0, 0>>, <<3, 4>>>>
    /\ clientes_coords = <<<<0, 0>>>>

NextRatio ==
    \/ Derive
    \/ CreateVars
    \/ CreateProblem
    \/ SetObjective
    \/ AddConstraint
    \/ Bind
    \/ Solve
    \/ Report

SpecRatio == InitRatio /\ [][NextRatio]_vars

\* Scenario 3 on data frames of few rows and of about as many rows as the budget
\* pays consultations for
MaxDemanda == 2
MargemCap == 30

TipoSemDemanda == Linha(5000, 22, 25, "no")
TipoEmergencia == Linha(5000, 22, 55, "no")
TipoCirurgia == Linha(5000, 36, 25, "no")

LinhasCap ==
    LET cheio == orcamento_capacidade \div custo_consulta
    IN (0..MaxDemanda) \cup ((cheio - MargemCap)..(cheio + 1))

InitCap ==
    /\ Inicio(Primeiro(3), Ultimo(3))
    /\ cols = ColunasAntes(3)
    /\ \E n \in LinhasCap, e \in 0..MaxDemanda, c \in 0..MaxDemanda :
          LET g == (TipoSemDemanda :> n) @@ (TipoEmergencia :> e) @@ (TipoCirurgia :> c)
          IN df = [t \in {u \in DOMAIN g : g[u] > 0} |-> g[t]]
    /\ Fixos

NextCap ==
    \/ Derive
    \/ CreateVars
    \/ CreateProblem
    \/ SetObjective
    \/ AddConstraint
    \/ Solve
    \/ Report

SpecCap == InitCap /\ [][NextCap]_vars

\* Scenario 4 on data frames with given numbers of rows per age tier
Disponiveis == {0, 19, 20, 40}
OutrosCasos == {<<100, 0, 0>>, <<99, 0, 0>>, <<0, 40, 60>>, <<0, 40, 59>>, <<80, 0, 20>>,
                <<80, 0, 19>>, <<21, 0, 81>>, <<30, 30, 40>>, <<30, 30, 39>>}
CasosFaixa == (Disponiveis \X Disponiveis \X Disponiveis) \cup OutrosCasos

TipoJovem == Linha(3000, 22, 25, "no")
TipoAdulto == Linha(4500, 22, 45, "no")
TipoSenior == Linha(9000, 22, 65, "no")
TipoSemFaixa == Linha(5000, 22, 0, "no")

InitAge ==
    /\ Inicio(Primeiro(4), Ultimo(4))
    /\ cols = ColunasAntes(4)
    /\ \E n \in CasosFaixa :
          LET g == (TipoJovem :> n[1]) @@ (TipoAdulto :> n[2]) @@ (TipoSenior :> n[3])
                       @@ (TipoSemFaixa :> 1)
          IN df = [t \in {u \in DOMAIN g : g[u] > 0} |-> g[t]]
    /\ Fixos

NextAge ==
    \/ Derive
    \/ CreateVars
    \/ CreateProblem
    \/ SetObjective
    \/ AddConstraint
    \/ Bind
    \/ Solve
    \/ Report

SpecAge == InitAge /\ [][NextAge]_vars

\* Scenario 6 on every placement of 2..MaxCentros centres and 1..MaxPontos demand
\* points on the points Pontos
Pontos == {<<0, 0>>, <<3, 4>>}

InitCov ==
    /\ Inicio(Primeiro(6), Ultimo(6))
    /\ cols = ColunasAntes(6)
    /\ df = (TipoSemDemanda :> 1)
    /\ fracao = fracao_regiao
    /\ minimo_regiao = minimo_por_regiao
    /\ centros \in UNION {[1..n -> Pontos] : n \in 2..MaxCentros}
    /\ clientes_coords \in UNION {[1..n -> Pontos] : n \in 1..MaxPontos}

NextCov ==
    \/ CreateVars
    \/ CreateProblem
    \/ SetObjective
    \/ AddConstraint
    \/ Solve
    \/ Report

SpecCov == InitCov /\ [][NextCov]_vars

----------------------------------------------------------------------------
(* Properties *)

\* scenario k has been solved and its report has not run yet
AposSolve(k) == status[k] # "pendente" /\ out[k] = "pendente"

\* pulp.value(prob.objective) of scenario k after its solve
ValorObjetivo(k) == Avalia(prob[k].objetivo, valor.a)

\* the data frame of one row per cost of C
UmPorCusto(C) == [t \in {Linha(c, 22, 25, "no") : c \in C} |-> 1]

\* the record of cost c in a data frame of one row per cost
Registro(c) == <<"x", <<Linha(c, 22, 25, "no"), 1>>>>

\* the data frame of the example: costs 10000, 16000 and 20000
Exemplo == UmPorCusto({10000, 16000, 20000})

\* C1 (as amended): on the three records of costs 10000, 16000 and 20000 the
\* solve is Optimal with objective 10000, and every optimal selection holds the
\* record of cost 10000 and exactly one of the other two.
C1_Exemplo ==
    (df = Exemplo /\ AposSolve(1)) =>
        /\ status[1] = "Optimal"
        /\ ValorObjetivo(1) = 10000
        /\ Val(valor.a, Registro(10000)) = 1
        /\ Val(valor.a, Registro(16000)) + Val(valor.a, Registro(20000)) = 1

\* an optimal selection of the example that holds the record of cost 20000
C1_Witness ==
    /\ df = Exemplo
    /\ AposSolve(1)
    /\ status[1] = "Optimal"
    /\ Val(valor.a, Registro(20000)) = 1

\* C1 (as stated): on those three records the optimal selection is exactly
\* the records of cost 10000 and 16000, the record of cost 20000 is in no optimal
\* selection, and the objective is 10000.
C1_Original ==
    (df = Exemplo /\ AposSolve(1)) =>
        /\ status[1] = "Optimal"
        /\ ValorObjetivo(1) = 10000
        /\ Val(valor.a, Registro(10000)) = 1
        /\ Val(valor.a, Registro(16000)) = 1
        /\ Val(valor.a, Registro(20000)) = 0

RECURSIVE SomaMenores(_, _)
\* the sum of the n smallest costs of the records S
SomaMenores(S, n) ==
    IF n = 0 THEN 0
    ELSE LET m == CHOOSE i \in S : \A j \in S : i[1].charges <= j[1].charges
         IN m[1].charges + SomaMenores(S \ {m}, n - 1)

\* the largest n such that the n smallest costs sum to at most 15000 * n
MaiorGrupo ==
    LET bons == {n \in 0..NumLinhas : SomaMenores(clientes, n) <= 15000 * n}
    IN CHOOSE n \in bons : \A m \in bons : m <= n

\* C10: for every list of costs the selection model is feasible (its solve
\* is Optimal), the optimal objective is 5000 * K with K the largest k such that the
\* k smallest costs sum to at most 15000 * k, and the selection the report lists
\* has mean cost at most 15000.
C10_Selecao ==
    /\ status[1] # "pendente" => status[1] = "Optimal"
    /\ AposSolve(1) => ValorObjetivo(1) = 5000 * MaiorGrupo
    /\ SomaSobre([i \in selecionados |-> i[1].charges], selecionados)
           <= 15000 * Cardinality(selecionados)

\* a reported selection of two records out of three, the greedy count being two
C10_Witness ==
    /\ out[1] = "solucao"
    /\ NumLinhas = 3
    /\ MaiorGrupo = 2
    /\ Cardinality(selecionados) = 2

\* C5: the ratio model has no feasible assignment whenever the number of
\* groups times the fraction is below 1 (so for 2 groups at 40%), and the model as
\* coded (fraction 0.3, at least 10 per region) has none for any data: its solve
\* ends Infeasible, never Optimal.
C5_Razao ==
    AposSolve(2) =>
        /\ Cardinality(regioes) * fracao < 100 => status[2] = "Infeasible"
        /\ (fracao = 30 /\ minimo_regiao = 10) => status[2] = "Infeasible"

\* two groups at 40%, at least 50 in total, no per-group minimum: Infeasible
C5_Witness ==
    /\ AposSolve(2)
    /\ Cardinality(regioes) = 2
    /\ fracao = 40
    /\ minimo_regiao = 0
    /\ Cardinality(prob[2].restricoes) = 5
    /\ status[2] = "Infeasible"

\* the rows of the data frame in the age tier f
Disponivel(f) ==
    SomaSobre([t \in DOMAIN df |-> IF faixa_etaria(t) = f THEN df[t] ELSE 0], DOMAIN df)

\* the age tiers that have rows
Presentes == {f \in Faixas : Disponivel(f) > 0}

Emergencias ==
    SomaSobre([t \in DOMAIN df |-> IF t.age > 50 \/ t.smoker = "yes" THEN df[t] ELSE 0],
              DOMAIN df)
Cirurgias ==
    SomaSobre([t \in DOMAIN df |-> IF t.bmi > 35 \/ t.age > 60 THEN df[t] ELSE 0],
              DOMAIN df)
Consultas == NumLinhas

\* C9: the capacity model is feasible if and only if the capacities equal
\* to the demands cost at most 2000000, its only optimum is then those capacities,
\* and it is infeasible for every data frame of more than 1000 rows.
C9_Capacidade ==
    AposSolve(3) =>
        /\ status[3] = "Optimal" <=>
              10000 * Emergencias + 15000 * Cirurgias + 2000 * Consultas <= 2000000
        /\ status[3] = "Optimal" =>
              /\ Val(valor.a, cap_emergencia) = Emergencias
              /\ Val(valor.a, cap_cirurgia) = Cirurgias
              /\ Val(valor.a, cap_consulta) = Consultas
        /\ NumLinhas > 1000 => status[3] = "Infeasible"

\* 1000 rows without other demand: the budget is met exactly
C9_Witness ==
    /\ AposSolve(3)
    /\ NumLinhas = 1000
    /\ Emergencias = 0
    /\ Cirurgias = 0
    /\ status[3] = "Optimal"
    /\ Val(valor.a, cap_consulta) = 1000

\* the centres open in the solution
Abertos == {j \in 1..n_centros : Val(valor.a, <<"centro_aberto", j>>) = 1}

\* one demand point on one of two candidate centres
UmSobreDois ==
    /\ n_centros = 2
    /\ n_clientes_sample = 1
    /\ \E j \in 1..2 : centros[j] = clientes_coords[1]

\* only the centre j open, the demand point served by it
SoCentro(j) ==
    [v \in z \cup w |-> IF v[1] = "centro_aberto" THEN (IF v[2] = j THEN 1 ELSE 0)
                        ELSE (IF v[2][2] = j THEN 1 ELSE 0)]

\* whether the assignment a satisfies the constraint r
Satisfaz(r, a) ==
    LET s == Avalia(r.termos, a)
    IN CASE r.sentido = "<=" -> s <= r.rhs
         [] r.sentido = ">=" -> s >= r.rhs
         [] OTHER -> s = r.rhs

\* C2: with one demand point on one of two candidate centres the solve is
\* Optimal and every optimum opens both centres, though opening only the centre
\* on the demand point meets every other constraint at a strictly lower objective.
C2_Cobertura ==
    (AposSolve(6) /\ UmSobreDois) =>
        /\ status[6] = "Optimal"
        /\ Cardinality(Abertos) >= 2
        /\ \A j \in 1..2 :
              centros[j] = clientes_coords[1] =>
                 /\ \A r \in prob[6].restricoes :
                       r.linha # 292 => Satisfaz(r, SoCentro(j))
                 /\ Avalia(prob[6].objetivo, SoCentro(j)) < ValorObjetivo(6)

\* both centres open for the one demand point that lies on the first
C2_Witness ==
    /\ AposSolve(6)
    /\ UmSobreDois
    /\ centros[1] = clientes_coords[1]
    /\ centros[2] # clientes_coords[1]
    /\ status[6] = "Optimal"
    /\ Abertos = {1, 2}

\* C3 (as stated): whenever a solve ends with a status other than Optimal,
\* the report of that scenario renders "no solution" and the run does not end in
\* an exception.
C3_SemSolucao ==
    \A k \in Cenarios :
        (status[k] \notin {"pendente", "Optimal"} /\ out[k] # "pendente") =>
            (out[k] = "sem_solucao" /\ erro = "nenhum")

\* C4 (as stated): when a required column is absent the run ends before any
\* model is created or solved.
C4_Esquema ==
    ~(Requeridas \subseteq cols) =>
        \A k \in Cenarios : ~prob[k].criado /\ prob[k].resolvido = 0

\* C6: every variable in the objective or in a constraint of a model was
\* created for that model and is in no other model, the expressions bound to
\* total_clientes and total_orcamento included.
C6_Posse ==
    \A k \in Cenarios :
        \A v \in Variaveis(k) :
            /\ <<v, k>> \in criadas
            /\ \A j \in Cenarios \ {k} : v \notin Variaveis(j) /\ <<v, j>> \notin criadas

\* the three models that use a bound total all hold their share constraints
C6_Witness ==
    /\ \E r \in prob[2].restricoes : r.linha = 72 /\ VarsDe(r.termos) = y
    /\ \E r \in prob[4].restricoes : r.linha = 170 /\ VarsDe(r.termos) = clientes_faixa
    /\ \E r \in prob[5].restricoes : r.linha = 218 /\ VarsDe(r.termos) = orcamento

\* the lines of the statements of scenario k that add constraints
LinhasDeRestricao(k) ==
    {Programa[i].linha : i \in {j \in 1..Len(Programa) :
                                   Programa[j].cen = k /\ Programa[j].op = "constraint"}}

\* C7: the models are created in the order 1..6, each only after the one
\* before it was solved; a model is solved once, with its objective set and the
\* constraints of all its statements added, and gets nothing after its solve.
C7_Ciclo ==
    \A k \in Cenarios :
        /\ prob[k].resolvido <= 1
        /\ prob[k].tardias = 0
        /\ (prob[k].objetivos > 0 \/ prob[k].restricoes # {} \/ prob[k].resolvido > 0)
              => prob[k].criado
        /\ prob[k].resolvido = 1 =>
              /\ prob[k].objetivos = 1
              /\ LinhasDeRestricao(k) \subseteq {r.linha : r \in prob[k].restricoes}
        /\ status[k] # "pendente" <=> prob[k].resolvido = 1
        /\ (k > 1 /\ prob[k].criado) => prob[k - 1].resolvido = 1

\* the end of a run that solved all six models
C7_Witness ==
    /\ pc > Len(Script)
    /\ erro = "nenhum"
    /\ \A k \in Cenarios : prob[k].resolvido = 1 /\ out[k] # "pendente"

====
